---- MODULE Spec2Model ----
(***************************************************************************)
(* Model of atstdd's attestation utilities (src/utils/attestations.ts) and *)
(* of the publish command (bin/cli.ts):                                    *)
(*   slice   - binary search for request slices under the block gas limit  *)
(*   hash    - chained verification hash                                   *)
(*   rehash  - removal of the already-published prefix                     *)
(*   publish - rehash against the attester's $vhash, then attest in order  *)
(***************************************************************************)
EXTENDS Integers, Sequences, FiniteSets, TLC

\* ------------------------------------------------------------------ bounds
MaxEntries == 3      \* most attestations in a collection, over all its requests
MaxBatches == 2      \* most requests in a collection given to rehash and publish
MaxSliceBatches == 1 \* most requests in a collection given to slice
MaxSliced == 2       \* cap on sliced.length (slice can push for ever)
MaxCost == 2         \* largest gas estimate the estimator answers
MaxChain == 2        \* most attestations hashed into a vhash that matches no prefix
MaxRuns == 2         \* most publish runs (restarts) followed
MaxRecords == 3      \* most encoded attestations given to pack

\* --------------------------------------------------------------- constants
GasBuffer == 100000

Schemas == {"A", "B"}
Entries == {"r1", "r2"}
GasLimits == {GasBuffer + 1, GasBuffer + 2}
Payloads == {"r1", "r2", "r3"}
NoRecipient == ""
AddressZero == "0x0000000000000000000000000000000000000000"
Recipients == {NoRecipient, "0xb0b"}

\* Error messages an estimateGas call can fail with, as word sequences.
Messages ==
  { <<"tx", "exceeds", "gas", "limit">>,
    <<"cannot", "estimate", "gas">>,
    <<"exceeds", "limit">>,
    <<"network", "error">> }

NoMessage == << >>
Undefined == -1

\* ----------------------------------------------------------------- helpers
RECURSIVE SeqsOfLen(_, _)
SeqsOfLen(S, n) ==
  IF n = 0 THEN { << >> }
  ELSE { Append(s, x) : s \in SeqsOfLen(S, n - 1), x \in S }

SeqsUpTo(S, n) == UNION { SeqsOfLen(S, k) : k \in 0..n }

Max(a, b) == IF a > b THEN a ELSE b

\* Array.prototype.slice(from, to) for 0 <= from, 0 <= to: 0-based, to exclusive.
JsSlice(data, from, to) == SubSeq(data, from + 1, to)

\* String.prototype.includes, on word sequences.
Includes(msg, pat) ==
  \E i \in 1..(Len(msg) - Len(pat) + 1) : SubSeq(msg, i, i + Len(pat) - 1) = pat

\* One MultiAttestationRequest: a schema and its attestation data.
Request(schema, data) == [schema |-> schema, data |-> data]

\* All (schema, attestation) pairs of a collection, in collection order.
RECURSIVE Flatten(_)
Flatten(reqs) ==
  IF reqs = << >> THEN << >>
  ELSE [i \in 1..Len(Head(reqs).data) |-> <<Head(reqs).schema, Head(reqs).data[i]>>]
       \o Flatten(Tail(reqs))

\* The collections of at most b requests holding at most t attestations in all.
RECURSIVE Collections(_, _)
Collections(b, t) ==
  IF b = 0 THEN { << >> }
  ELSE { << >> } \cup
       UNION { { <<Request(x[1], x[2])>> \o c : c \in Collections(b - 1, t - Len(x[2])) } :
               x \in Schemas \X SeqsUpTo(Entries, t) }

\* ------------------------------------------------------------------- state
VARIABLES
  requests,   \* slice: the requests argument
  chainLimit, \* gas limit of the latest block
  gasLimit,   \* slice: block.gasLimit captured by the call (Undefined before)
  memo,       \* the estimator's answers so far, by (schema, data) argument
  ri,         \* slice: index of the request of the for loop (1-based)
  start, lo, hi, mid,
  sliced,     \* slice: the local array of slices
  pc,         \* slice: "getBlock", "outer", "search", "done", "failed"
  result,     \* slice: the returned array, or NoResult
  err,        \* slice: message of the error the call threw, or NoMessage
  vhash,      \* rehash: the vhash argument; publish: the attester's $vhash
  ret,        \* rehash: what the call returned or threw, or NoCall
  rehashed,   \* publish: the requests rehash returned
  pi,         \* publish: index of the next request to send (1-based)
  pending,    \* publish: the attest transaction not yet mined, or NoTx
  ppc,        \* publish: "start", "loop", "waiting", "complete", "failed"
  runs,       \* publish: restarts of the command so far
  sent,       \* publish: attest transactions sent so far, over all runs
  orphans,    \* publish: transactions of interrupted runs not yet mined, oldest first
  probes,     \* slice: the answers of the running search, by mid
  others,     \* verify: a second collection
  valid,      \* verify: <<verify(vhash, requests)>>, or << >> before the call
  valid2,     \* verify: <<verify(vhash, others)>>, or << >> before the call
  attestations, \* pack: the attestations argument
  acc,        \* pack: the accumulator of the reduce
  pk          \* pack: index of the next attestation to reduce (1-based)

sliceVars == <<chainLimit, gasLimit, memo, ri, start, lo, hi, mid,
               sliced, pc, result, err>>
rehashVars == <<vhash, ret>>
publishVars == <<rehashed, pi, pending, ppc, runs, sent>>
verifyVars == <<others, valid, valid2>>
packVars == <<attestations, acc, pk>>
addedVars == <<orphans, probes, verifyVars, packVars>>

vars == <<requests, sliceVars, rehashVars, publishVars, addedVars>>

NoResult == <<"none">>

NoCall == [ok |-> FALSE, value |-> << >>, error |-> "not called"]
NoTx == [schema |-> "none", data |-> << >>]

\* ---------------------------------------------------------------- hashing
\* ethers.constants.HashZero
HashZero == << >>

\* keccak256(abi.encode(vhash, schema, attestation)): collision free, so a
\* hash is determined by, and determines, the chain of pairs hashed into it.
hash(v, schema, attestation) == Append(v, <<schema, attestation>>)

\* The commitments over at most n (schema, attestation) pairs.
Commitments(n) == SeqsUpTo(Schemas \X Entries, n)

\* The publish command before it has run.
PublishIdle ==
  /\ rehashed = << >> /\ pi = 1 /\ pending = NoTx
  /\ ppc = "start" /\ runs = 0 /\ sent = 0

\* No orphaned transaction, no search running, verify and pack not called.
AddedIdle ==
  /\ orphans = << >> /\ probes = << >>
  /\ others = << >> /\ valid = << >> /\ valid2 = << >>
  /\ attestations = << >> /\ acc = << >> /\ pk = 1

\* --------------------------------------------------------------- estimator
\* attester.estimateGas.attest answers a gas estimate or throws an error.
Estimate(cost) == [ok |-> TRUE, cost |-> cost, message |-> NoMessage]
Failure(message) == [ok |-> FALSE, cost |-> 0, message |-> message]
Outcomes == { Estimate(c) : c \in 1..MaxCost } \cup { Failure(m) : m \in Messages }

\* The argument of the probe of the range [from, to) of request r.
ProbeArg(r, from, to) ==
  <<requests[r].schema, JsSlice(requests[r].data, from, to)>>

\* ------------------------------------------------------------------- slice
\* A catch that takes only 'exceeds gas limit' for recoverable.
IsRecoverable_OnlyExceeds(message) ==
  Includes(message, <<"exceeds", "gas", "limit">>)

\* A catch that swallows every estimator error.
IsRecoverable_CatchAll(message) == TRUE

\* err.message.includes('exceeds gas limit') || includes('cannot estimate gas')
IsRecoverable(message) ==
  \/ Includes(message, <<"exceeds", "gas", "limit">>)
  \/ Includes(message, <<"cannot", "estimate", "gas">>)

\* estimate.gt(block.gasLimit.sub(100000))
OverLimit(cost, limit) == cost > limit - GasBuffer

\* A slice that ends one attestation too early.
SliceOf_OffByOne(r, from, l) ==
  Request(requests[r].schema, JsSlice(requests[r].data, from, Max(from, l - 2)))

\* data.slice(start, Math.max(start, lo - 1))
SliceOf(r, from, l) ==
  Request(requests[r].schema, JsSlice(requests[r].data, from, Max(from, l - 1)))

Init ==
  /\ requests \in Collections(MaxSliceBatches, MaxEntries)
  /\ chainLimit \in GasLimits
  /\ gasLimit = Undefined
  /\ memo = << >>
  /\ ri = 1
  /\ start = 0 /\ lo = 0 /\ hi = 0 /\ mid = Undefined
  /\ sliced = << >>
  /\ pc = "getBlock"
  /\ result = NoResult
  /\ err = NoMessage
  /\ vhash = HashZero /\ ret = NoCall
  /\ PublishIdle
  /\ AddedIdle

\* const block = await attester.provider.getBlock('latest')
GetBlock ==
  /\ pc = "getBlock"
  /\ gasLimit' = chainLimit
  /\ pc' = "outer"
  /\ UNCHANGED <<requests, chainLimit, memo, ri, start, lo, hi, mid, sliced, result, err,
               rehashVars, publishVars, addedVars>>

\* for (const request of requests) { let start = 0 ... } : the next request
NextRequest ==
  /\ pc = "outer"
  /\ ri <= Len(requests)
  /\ ~(start < Len(requests[ri].data))
  /\ ri' = ri + 1
  /\ start' = 0
  /\ UNCHANGED <<requests, chainLimit, gasLimit, memo, lo, hi, mid, sliced, pc, result, err,
               rehashVars, publishVars, addedVars>>

\* while (start < request.data.length) { let lo = start; let hi = length ...
BeginSearch ==
  /\ pc = "outer"
  /\ ri <= Len(requests)
  /\ start < Len(requests[ri].data)
  /\ lo' = start
  /\ hi' = Len(requests[ri].data)
  /\ mid' = Undefined
  /\ pc' = "search"
  /\ UNCHANGED <<requests, chainLimit, gasLimit, memo, ri, start, sliced, result, err,
               rehashVars, publishVars, addedVars>>

\* A comparison with the gas limit of the latest block, read anew.
ProbeEffect_FreshLimit(m, out) ==
  IF out.ok
    THEN /\ IF OverLimit(out.cost, chainLimit)
              THEN hi' = m - 1 /\ lo' = lo
              ELSE lo' = m + 1 /\ hi' = hi
         /\ UNCHANGED <<pc, err>>
    ELSE IF IsRecoverable(out.message)
      THEN /\ hi' = m - 1 /\ lo' = lo
           /\ UNCHANGED <<pc, err>>
      ELSE /\ pc' = "failed"
           /\ err' = out.message
           /\ UNCHANGED <<lo, hi>>

\* The effect of one answer of the estimator on the binary search.
ProbeEffect(m, out) ==
  IF out.ok
    THEN /\ IF OverLimit(out.cost, gasLimit)
              THEN hi' = m - 1 /\ lo' = lo
              ELSE lo' = m + 1 /\ hi' = hi
         /\ UNCHANGED <<pc, err>>
    ELSE IF IsRecoverable(out.message)
      THEN /\ hi' = m - 1 /\ lo' = lo
           /\ UNCHANGED <<pc, err>>
      ELSE /\ pc' = "failed"
           /\ err' = out.message
           /\ UNCHANGED <<lo, hi>>

\* while (lo <= hi) { mid = floor((lo + hi) / 2); try { estimate ... } catch ... }
Probe ==
  /\ pc = "search"
  /\ lo <= hi
  /\ LET m == (lo + hi) \div 2
         arg == ProbeArg(ri, start, m)
     IN /\ mid' = m
        /\ \E out \in Outcomes :
             /\ arg \in DOMAIN memo => out = memo[arg]
             /\ memo' = IF arg \in DOMAIN memo THEN memo ELSE (arg :> out) @@ memo
             /\ ProbeEffect(m, out)
  /\ UNCHANGED <<requests, chainLimit, gasLimit, ri, start, sliced, result,
               rehashVars, publishVars, addedVars>>

\* sliced.push({ schema, data: data.slice(start, max(start, lo - 1)) }); start = lo
Emit ==
  /\ pc = "search"
  /\ ~(lo <= hi)
  /\ Len(sliced) < MaxSliced
  /\ sliced' = Append(sliced, SliceOf(ri, start, lo))
  /\ start' = lo
  /\ pc' = "outer"
  /\ UNCHANGED <<requests, chainLimit, gasLimit, memo, ri, lo, hi, mid, result, err,
               rehashVars, publishVars, addedVars>>

\* return sliced
Return ==
  /\ pc = "outer"
  /\ ri > Len(requests)
  /\ result' = sliced
  /\ pc' = "done"
  /\ UNCHANGED <<requests, chainLimit, gasLimit, memo, ri, start, lo, hi, mid, sliced, err,
               rehashVars, publishVars, addedVars>>

Next ==
  \/ GetBlock
  \/ NextRequest
  \/ BeginSearch
  \/ Probe
  \/ Emit
  \/ Return

Spec == Init /\ [][Next]_vars

\* ------------------------------------- slice while the chain moves on
\* A new block with another gas limit is produced.
LimitChanges ==
  /\ chainLimit' \in GasLimits \ {chainLimit}
  /\ UNCHANGED <<requests, gasLimit, memo, ri, start, lo, hi, mid, sliced, pc, result, err,
                 rehashVars, publishVars, addedVars>>

\* BeginSearch, the answers of the search that starts being recorded in probes.
StaleBeginSearch ==
  /\ pc = "outer"
  /\ ri <= Len(requests)
  /\ start < Len(requests[ri].data)
  /\ lo' = start
  /\ hi' = Len(requests[ri].data)
  /\ mid' = Undefined
  /\ pc' = "search"
  /\ probes' = << >>
  /\ UNCHANGED <<requests, chainLimit, gasLimit, memo, ri, start, sliced, result, err,
                 rehashVars, publishVars, orphans, verifyVars, packVars>>

\* Probe, with an estimator whose answer to a range may differ from one call
\* to the next.
StaleProbe ==
  /\ pc = "search"
  /\ lo <= hi
  /\ LET m == (lo + hi) \div 2
     IN /\ mid' = m
        /\ \E out \in Outcomes :
             /\ probes' = (m :> out) @@ probes
             /\ ProbeEffect(m, out)
  /\ UNCHANGED <<requests, chainLimit, gasLimit, memo, ri, start, sliced, result,
                 rehashVars, publishVars, orphans, verifyVars, packVars>>

NextStale ==
  \/ GetBlock
  \/ NextRequest
  \/ StaleBeginSearch
  \/ StaleProbe
  \/ Emit
  \/ Return
  \/ LimitChanges

SpecStale == Init /\ [][NextStale]_vars

\* ------------------------------------------------------------------ verify
\* hash folded over a list of (schema, attestation) pairs, from v.
RECURSIVE FoldHash(_, _)
FoldHash(v, pairs) ==
  IF pairs = << >> THEN v
  ELSE FoldHash(hash(v, Head(pairs)[1], Head(pairs)[2]), Tail(pairs))

\* A loop body that forgets the running hash.
VerifyEntry_NoChain(computed, schema, attestation) ==
  hash(HashZero, schema, attestation)

\* computed = hash(computed, entry.schema, attestation)
VerifyEntry(computed, schema, attestation) == hash(computed, schema, attestation)

\* An inner loop whose running hash starts again with every request.
RECURSIVE VerifyData_Restart(_, _, _)
VerifyData_Restart(computed, entry, i) ==
  IF i > Len(entry.data) THEN computed
  ELSE VerifyData_Restart(
         VerifyEntry(IF i = 1 THEN HashZero ELSE computed, entry.schema, entry.data[i]),
         entry, i + 1)

\* for (const attestation of entry.data) { ... }, from the i-th attestation on.
RECURSIVE VerifyData(_, _, _)
VerifyData(computed, entry, i) ==
  IF i > Len(entry.data) THEN computed
  ELSE VerifyData(VerifyEntry(computed, entry.schema, entry.data[i]), entry, i + 1)

\* for (const entry of requests) { ... }, from the r-th request on.
RECURSIVE VerifyRequests(_, _, _)
VerifyRequests(computed, reqs, r) ==
  IF r > Len(reqs) THEN computed
  ELSE VerifyRequests(VerifyData(computed, reqs[r], 1), reqs, r + 1)

\* verify(vhash, requests): let computed = HashZero ... return computed === vhash
verify(v, reqs) == VerifyRequests(HashZero, reqs, 1) = v

\* The collections of at most b requests whose pairs, flattened, are pairs.
RECURSIVE Regroupings(_, _)
Regroupings(pairs, b) ==
  (IF pairs = << >> THEN { << >> } ELSE { }) \cup
  (IF b = 0 THEN { }
   ELSE UNION {
     { <<Request(x[1], [i \in 1..x[2] |-> pairs[i][2]])>> \o c :
         c \in Regroupings(SubSeq(pairs, x[2] + 1, Len(pairs)), b - 1) } :
     x \in { y \in Schemas \X (0..Len(pairs)) : \A i \in 1..y[2] : pairs[i][1] = y[1] } })

\* ------------------------------------------------------------------ rehash
\* A loop body that forgets the continue: the matching attestation is kept.
RehashStep_KeepMatch(v, schema, data, st) ==
  LET computed == hash(st.computed, schema, data)
      found == st.found \/ computed = v
  IN [computed |-> computed,
      found |-> found,
      updated |-> IF found THEN Append(st.updated, data) ELSE st.updated]

\* The body of the inner loop, for one attestation of a request.
RehashStep(v, schema, data, st) ==
  LET computed == hash(st.computed, schema, data)
  IN IF computed = v
       THEN [computed |-> computed, found |-> TRUE, updated |-> st.updated]
       ELSE [computed |-> computed,
             found |-> st.found,
             updated |-> IF st.found THEN Append(st.updated, data) ELSE st.updated]

\* for (const data of request.data) { ... }, from the i-th attestation on.
RECURSIVE RehashData(_, _, _, _)
RehashData(v, request, i, st) ==
  IF i > Len(request.data) THEN st
  ELSE RehashData(v, request, i + 1, RehashStep(v, request.schema, request.data[i], st))

\* An outer loop that adds what is left of a request to the request pushed
\* before it when both have the same schema.
RECURSIVE RehashRequests_Merge(_, _, _, _)
RehashRequests_Merge(v, reqs, r, lp) ==
  IF r > Len(reqs) THEN lp
  ELSE LET st == RehashData(v, reqs[r], 1,
                   [computed |-> lp.computed, found |-> lp.found, updated |-> << >>])
           push == st.found /\ Len(st.updated) > 0
           n == Len(lp.rehashed)
           merge == n > 0 /\ lp.rehashed[n].schema = reqs[r].schema
       IN RehashRequests_Merge(v, reqs, r + 1,
            [computed |-> st.computed,
             found |-> st.found,
             rehashed |-> IF ~push THEN lp.rehashed
                          ELSE IF merge
                            THEN [lp.rehashed EXCEPT ![n] =
                                    Request(reqs[r].schema, lp.rehashed[n].data \o st.updated)]
                            ELSE Append(lp.rehashed, Request(reqs[r].schema, st.updated))])

\* for (const request of requests) { ... }, from the r-th request on; lp holds
\* computed, found and rehashed.
RECURSIVE RehashRequests(_, _, _, _)
RehashRequests(v, reqs, r, lp) ==
  IF r > Len(reqs) THEN lp
  ELSE LET st == RehashData(v, reqs[r], 1,
                   [computed |-> lp.computed, found |-> lp.found, updated |-> << >>])
           push == st.found /\ Len(st.updated) > 0
       IN RehashRequests(v, reqs, r + 1,
            [computed |-> st.computed,
             found |-> st.found,
             rehashed |-> IF push
                            THEN Append(lp.rehashed, Request(reqs[r].schema, st.updated))
                            ELSE lp.rehashed])

Returned(value) == [ok |-> TRUE, value |-> value, error |-> ""]
Thrown(error) == [ok |-> FALSE, value |-> << >>, error |-> error]

\* An ending that returns the (empty) rehashed array when nothing matched.
RehashResult_ReturnRehashed(v, reqs, lp) == Returned(lp.rehashed)

\* An ending that takes every unmatched hash for 'nothing published yet'.
RehashResult_NeverThrows(v, reqs, lp) ==
  IF ~lp.found THEN Returned(reqs) ELSE Returned(lp.rehashed)

\* if (!found) { if (vhash === HashZero) return requests else throw } return rehashed
RehashResult(v, reqs, lp) ==
  IF ~lp.found
    THEN IF v = HashZero
           THEN Returned(reqs)
           ELSE Thrown("verification hash mismatch")
    ELSE Returned(lp.rehashed)

\* rehash(vhash, requests)
rehash(v, reqs) ==
  RehashResult(v, reqs,
    RehashRequests(v, reqs, 1,
      [computed |-> HashZero, found |-> FALSE, rehashed |-> << >>]))

\* The vhash values tried on a collection: the hash of each of its prefixes
\* and every hash over at most MaxChain attestations.
VHashes(reqs) ==
  { FoldHash(HashZero, SubSeq(Flatten(reqs), 1, k)) : k \in 0..Len(Flatten(reqs)) }
    \cup Commitments(MaxChain)

\* The inputs of a rehash call.
InitRehash ==
  /\ requests \in Collections(MaxBatches, MaxEntries)
  /\ vhash \in VHashes(requests)
  /\ ret = NoCall
  /\ chainLimit = GasBuffer + 1
  /\ gasLimit = Undefined
  /\ memo = << >>
  /\ ri = 1
  /\ start = 0 /\ lo = 0 /\ hi = 0 /\ mid = Undefined
  /\ sliced = << >>
  /\ pc = "getBlock"
  /\ result = NoResult
  /\ err = NoMessage
  /\ PublishIdle
  /\ AddedIdle

\* One call of rehash.
RehashCall ==
  /\ ret = NoCall
  /\ ret' = rehash(vhash, requests)
  /\ UNCHANGED <<requests, vhash, sliceVars, publishVars, addedVars>>

NextRehash == RehashCall

SpecRehash == InitRehash /\ [][NextRehash]_vars

\* Everything but requests and vhash, before any call.
AllIdle ==
  /\ ret = NoCall
  /\ chainLimit = GasBuffer + 1
  /\ gasLimit = Undefined
  /\ memo = << >>
  /\ ri = 1
  /\ start = 0 /\ lo = 0 /\ hi = 0 /\ mid = Undefined
  /\ sliced = << >>
  /\ pc = "getBlock"
  /\ result = NoResult
  /\ err = NoMessage
  /\ PublishIdle
  /\ AddedIdle

\* The inputs of a verify call.
InitVerify ==
  /\ requests \in Collections(MaxBatches, MaxEntries)
  /\ vhash \in VHashes(requests)
  /\ AllIdle

\* The inputs of verify on two collections: a collection and the hash of one
\* of its prefixes (the whole of it included).
InitRegroup ==
  /\ requests \in Collections(MaxBatches, MaxEntries)
  /\ vhash \in { FoldHash(HashZero, SubSeq(Flatten(requests), 1, k)) :
                   k \in 0..Len(Flatten(requests)) }
  /\ AllIdle

\* verify(vhash, requests)
VerifyCall ==
  /\ valid = << >>
  /\ valid' = << verify(vhash, requests) >>
  /\ UNCHANGED <<requests, sliceVars, rehashVars, publishVars,
                 orphans, probes, others, valid2, packVars>>

\* verify(vhash, others), for a collection that holds the attestations of
\* requests in the same order under other request boundaries.
VerifyOthers ==
  /\ valid2 = << >>
  /\ \E c \in Regroupings(Flatten(requests), MaxBatches) :
       /\ others' = c
       /\ valid2' = << verify(vhash, c) >>
  /\ UNCHANGED <<requests, sliceVars, rehashVars, publishVars,
                 orphans, probes, valid, packVars>>

NextVerify == VerifyCall

SpecVerify == InitVerify /\ [][NextVerify]_vars

NextRegroup ==
  \/ VerifyCall
  \/ VerifyOthers

SpecRegroup == InitRegroup /\ [][NextRegroup]_vars

\* -------------------------------------------------------------------- pack
\* The encoded attestations pack is given.
EncodedAttestations == [schema : Schemas, recipient : Recipients, data : Payloads]

\* The AttestationRequestData pack makes of one encoded attestation.
PackEntry(attestation) ==
  [recipient |-> IF attestation.recipient = NoRecipient
                   THEN AddressZero ELSE attestation.recipient,
   expirationTime |-> 0,
   revocable |-> FALSE,
   refUID |-> HashZero,
   data |-> attestation.data,
   value |-> 0]

\* A find that never finds the entry of a schema.
FindSchema_NeverFound(entries, schema) == 0

\* acc.find(entry => entry.schema === attestation.schema): the index of the
\* first entry of the schema, 0 if there is none.
FindSchema(entries, schema) ==
  IF \E i \in 1..Len(entries) : entries[i].schema = schema
    THEN CHOOSE i \in 1..Len(entries) :
           /\ entries[i].schema = schema
           /\ \A j \in 1..(i - 1) : entries[j].schema # schema
    ELSE 0

\* A reducer that puts the entry of a new schema in front of the others.
PackReduce_Unshift(entries, attestation) ==
  LET found == FindSchema(entries, attestation.schema)
      with == IF found = 0
                THEN <<Request(attestation.schema, << >>)>> \o entries
                ELSE entries
      at == IF found = 0 THEN 1 ELSE found
  IN [with EXCEPT ![at].data = Append(@, PackEntry(attestation))]

\* The reducer: find the entry of the schema, push a new one if there is
\* none, and push the attestation onto the entry's data.
PackReduce(entries, attestation) ==
  LET found == FindSchema(entries, attestation.schema)
      with == IF found = 0
                THEN Append(entries, Request(attestation.schema, << >>))
                ELSE entries
      at == IF found = 0 THEN Len(with) ELSE found
  IN [with EXCEPT ![at].data = Append(@, PackEntry(attestation))]

\* The input of a pack call; the reduce starts from [].
InitPack ==
  /\ attestations \in SeqsUpTo(EncodedAttestations, MaxRecords)
  /\ acc = << >>
  /\ pk = 1
  /\ requests = << >>
  /\ vhash = HashZero
  /\ orphans = << >> /\ probes = << >>
  /\ others = << >> /\ valid = << >> /\ valid2 = << >>
  /\ ret = NoCall
  /\ chainLimit = GasBuffer + 1
  /\ gasLimit = Undefined
  /\ memo = << >>
  /\ ri = 1
  /\ start = 0 /\ lo = 0 /\ hi = 0 /\ mid = Undefined
  /\ sliced = << >>
  /\ pc = "getBlock"
  /\ result = NoResult
  /\ err = NoMessage
  /\ PublishIdle

\* One call of the reducer, on the next attestation.
PackStep ==
  /\ pk <= Len(attestations)
  /\ acc' = PackReduce(acc, attestations[pk])
  /\ pk' = pk + 1
  /\ UNCHANGED <<requests, sliceVars, rehashVars, publishVars,
                 orphans, probes, verifyVars, attestations>>

NextPack == PackStep

SpecPack == InitPack /\ [][NextPack]_vars

\* ----------------------------------------------------------------- publish
\* A publish that sends the file as it is, without rehash.
PublishQueue_NoRehash(v, reqs) == Returned(reqs)

\* const rehashed = rehash(await attester.$vhash(), requests)
PublishQueue(v, reqs) == rehash(v, reqs)

\* VerifiableAttester.attest([request]): every attestation of the request is
\* hashed into $vhash, in order.
AttesterAttest(v, request) == FoldHash(v, Flatten(<<request>>))

\* The attestations file and the attester's $vhash when publish is first run.
InitPublish ==
  /\ requests \in Collections(MaxBatches, MaxEntries)
  /\ vhash \in VHashes(requests)
  /\ ret = NoCall
  /\ chainLimit = GasBuffer + 1
  /\ gasLimit = Undefined
  /\ memo = << >>
  /\ ri = 1
  /\ start = 0 /\ lo = 0 /\ hi = 0 /\ mid = Undefined
  /\ sliced = << >>
  /\ pc = "getBlock"
  /\ result = NoResult
  /\ err = NoMessage
  /\ PublishIdle
  /\ AddedIdle

\* A publish that goes on with the whole file when rehash throws.
PublishStart_IgnoreThrow ==
  /\ ppc = "start"
  /\ ret' = PublishQueue(vhash, requests)
  /\ rehashed' = (IF ret'.ok THEN ret'.value ELSE requests)
  /\ pi' = 1
  /\ ppc' = "loop"
  /\ UNCHANGED <<requests, vhash, pending, runs, sent, sliceVars, addedVars>>

\* Load the attestations and remove those already published; a throwing rehash
\* ends the command.
PublishStart ==
  /\ ppc = "start"
  /\ ret' = PublishQueue(vhash, requests)
  /\ IF ret'.ok
       THEN rehashed' = ret'.value /\ pi' = 1 /\ ppc' = "loop"
       ELSE ppc' = "failed" /\ UNCHANGED <<rehashed, pi>>
  /\ UNCHANGED <<requests, vhash, pending, runs, sent, sliceVars, addedVars>>

\* const tx = await attester.attest([request])
SendAttest ==
  /\ ppc = "loop"
  /\ pi <= Len(rehashed)
  /\ pending' = rehashed[pi]
  /\ sent' = sent + 1
  /\ ppc' = "waiting"
  /\ UNCHANGED <<requests, vhash, ret, rehashed, pi, runs, sliceVars, addedVars>>

\* The attester executes the transaction.
MineAttest ==
  /\ pending # NoTx
  /\ vhash' = AttesterAttest(vhash, pending)
  /\ pending' = NoTx
  /\ UNCHANGED <<requests, ret, rehashed, pi, ppc, runs, sent, sliceVars, addedVars>>

\* await tx.wait(), then the next i
ConfirmAttest ==
  /\ ppc = "waiting"
  /\ pending = NoTx
  /\ pi' = pi + 1
  /\ ppc' = "loop"
  /\ UNCHANGED <<requests, vhash, ret, rehashed, pending, runs, sent, sliceVars, addedVars>>

\* The loop ends: every request of rehashed was sent and confirmed.
PublishComplete ==
  /\ ppc = "loop"
  /\ pi > Len(rehashed)
  /\ ppc' = "complete"
  /\ UNCHANGED <<requests, vhash, ret, rehashed, pi, pending, runs, sent, sliceVars, addedVars>>

\* The command is interrupted between two submissions, or has ended, and is
\* run again on the same file: its local state is lost.
PublishRestart ==
  /\ ppc \in {"loop", "complete"}
  /\ runs < MaxRuns
  /\ runs' = runs + 1
  /\ rehashed' = << >> /\ pi' = 1
  /\ ret' = NoCall
  /\ ppc' = "start"
  /\ UNCHANGED <<requests, vhash, pending, sent, sliceVars, addedVars>>

NextPublish ==
  \/ PublishStart
  \/ SendAttest
  \/ MineAttest
  \/ ConfirmAttest
  \/ PublishComplete
  \/ PublishRestart

SpecPublish == InitPublish /\ [][NextPublish]_vars

\* ------------------------------- publish interrupted at tx.wait()
\* The file and a $vhash that commits to a prefix of it.
InitRace ==
  /\ requests \in Collections(MaxBatches, MaxEntries)
  /\ vhash \in { FoldHash(HashZero, SubSeq(Flatten(requests), 1, k)) :
                   k \in 0..Len(Flatten(requests)) }
  /\ AllIdle

\* The command is interrupted while it awaits tx.wait() and is run again on
\* the same file: its local state is lost, the transaction it sent is still
\* to be executed.
InterruptWaiting ==
  /\ ppc = "waiting"
  /\ pending # NoTx
  /\ runs < MaxRuns
  /\ runs' = runs + 1
  /\ orphans' = Append(orphans, pending)
  /\ pending' = NoTx
  /\ rehashed' = << >> /\ pi' = 1
  /\ ret' = NoCall
  /\ ppc' = "start"
  /\ UNCHANGED <<requests, vhash, sent, sliceVars, probes, verifyVars, packVars>>

\* The attester executes the oldest transaction of an interrupted run.
MineOrphan ==
  /\ orphans # << >>
  /\ vhash' = AttesterAttest(vhash, Head(orphans))
  /\ orphans' = Tail(orphans)
  /\ UNCHANGED <<requests, ret, rehashed, pi, pending, ppc, runs, sent,
                 sliceVars, probes, verifyVars, packVars>>

\* The attester executes the transaction of the current run, after those
\* sent before it.
MineInOrder ==
  /\ orphans = << >>
  /\ MineAttest

NextRace ==
  \/ PublishStart
  \/ SendAttest
  \/ MineInOrder
  \/ MineOrphan
  \/ ConfirmAttest
  \/ PublishComplete
  \/ PublishRestart
  \/ InterruptWaiting

SpecRace == InitRace /\ [][NextRace]_vars

\* The estimator's answer to the latest probe of the running search.
ProbeAnswer == memo[ProbeArg(ri, start, mid)]

\* A probe is being made: the only step slice takes from such a state.
Probing == pc = "search" /\ lo <= hi

\* -------------------------------------------------------- claims on slice

\* C1 (as claimed): when slice returns, the entries of the returned slices,
\* concatenated in output order and tagged with their schema, are exactly the
\* entries of the input requests.
C1_SliceComplete ==
  pc = "done" => Flatten(result) = Flatten(requests)

\* C2 (as claimed): when slice returns, every returned slice was estimated by
\* the (deterministic) estimator at strictly less than gasLimit - 100000.
C2_SliceBoundStrict ==
  pc = "done" =>
    \A i \in 1..Len(result) :
      LET arg == <<result[i].schema, result[i].data>>
      IN arg \in DOMAIN memo =>
           memo[arg].ok /\ memo[arg].cost < gasLimit - GasBuffer

\* C3 (as claimed): every push of a slice strictly increases start, so that
\* no run pushes zero-width slices for ever.
C3_StartIncreases ==
  [][Len(sliced') > Len(sliced) => start' > start]_vars

\* The estimator accepts exactly the ranges of at most n entries and answers
\* 'exceeds gas limit' for the longer ones.
C4_Threshold(n) ==
  \A arg \in DOMAIN memo :
    IF Len(arg[2]) <= n
      THEN memo[arg].ok /\ ~(memo[arg].cost > gasLimit - GasBuffer)
      ELSE ~memo[arg].ok /\ memo[arg].message = <<"tx", "exceeds", "gas", "limit">>

\* data cut into consecutive slices of n entries (the last one may be shorter).
RECURSIVE C4_Chunks(_, _, _)
C4_Chunks(schema, data, n) ==
  IF data = << >> THEN << >>
  ELSE IF Len(data) <= n THEN << Request(schema, data) >>
  ELSE << Request(schema, SubSeq(data, 1, n)) >>
       \o C4_Chunks(schema, SubSeq(data, n + 1, Len(data)), n)

\* C4 (as claimed): one request of L entries and an estimator accepting
\* exactly the ranges of at most n >= 1 entries give ceil(L / n) slices, each
\* the longest acceptable prefix of what is left.
C4_FewestSlices ==
  (pc = "done" /\ Len(requests) = 1) =>
    \A n \in 1..MaxEntries :
      C4_Threshold(n) =>
        result = C4_Chunks(requests[1].schema, requests[1].data, n)

\* C5: a probe failing with a message that includes 'exceeds gas limit' or
\* 'cannot estimate gas' moves the search exactly as an over-limit estimate
\* does (hi = mid - 1, lo unchanged, nothing else touched); the call goes on
\* and such a message is never the error of a failed call.
C5_RecoverableNarrows ==
  [][ LET indicated(m) == \/ Includes(m, <<"exceeds", "gas", "limit">>)
                          \/ Includes(m, <<"cannot", "estimate", "gas">>)
      IN /\ (Probing /\ ~ProbeAnswer'.ok /\ indicated(ProbeAnswer'.message)) =>
              /\ mid' = (lo + hi) \div 2
              /\ hi' = mid' - 1 /\ lo' = lo
              /\ pc' = "search" /\ err' = NoMessage
              /\ start' = start /\ ri' = ri
              /\ sliced' = sliced /\ result' = result
         /\ (Probing /\ ProbeAnswer'.ok /\ ProbeAnswer'.cost > gasLimit - GasBuffer) =>
              /\ hi' = mid' - 1 /\ lo' = lo /\ pc' = "search"
         /\ pc' = "failed" => ~indicated(err') ]_vars

\* A probe has just failed recoverably and the search goes on, narrowed.
C5_Witness ==
  /\ pc = "search" /\ mid # Undefined
  /\ ~ProbeAnswer.ok
  /\ ProbeAnswer.message = <<"cannot", "estimate", "gas">>
  /\ hi = mid - 1
  /\ sliced # << >>

\* C6: a probe failing with any other message makes the call fail with that
\* very message, wherever in the search or in the requests it happens; a
\* failed call takes no further step and returns no slices.
C6_FatalPropagates ==
  [][ LET indicated(m) == \/ Includes(m, <<"exceeds", "gas", "limit">>)
                          \/ Includes(m, <<"cannot", "estimate", "gas">>)
      IN /\ (Probing /\ ~ProbeAnswer'.ok /\ ~indicated(ProbeAnswer'.message)) =>
              /\ pc' = "failed"
              /\ err' = ProbeAnswer'.message
              /\ result' = NoResult
         /\ pc # "failed" ]_vars

\* A call failed on a fatal message after slices had already been pushed.
C6_Witness ==
  /\ pc = "failed"
  /\ err = <<"exceeds", "limit">>
  /\ sliced # << >>
  /\ start > 0
  /\ result = NoResult

\* ------------------------------------------------------- claims on rehash
\* The hash folded from HashZero over the first k pairs of the collection.
PrefixHash(k) == FoldHash(HashZero, SubSeq(Flatten(requests), 1, k))

\* The pairs of the collection after the first k.
Remainder(k) == SubSeq(Flatten(requests), k + 1, Len(Flatten(requests)))

NoEmptyRequest(reqs) == \A b \in 1..Len(reqs) : reqs[b].data # << >>

\* C7 (as claimed): for every prefix length k, 0 included, rehash of the hash
\* of the first k attestations returns exactly the attestations after the
\* k-th, in order, under their schemas, and no request without attestations.
C7_RoundTripNoEmpty ==
  ret # NoCall =>
    \A k \in 0..Len(Flatten(requests)) :
      vhash = PrefixHash(k) =>
        /\ ret.ok
        /\ Flatten(ret.value) = Remainder(k)
        /\ NoEmptyRequest(ret.value)

\* C7 (amended): the same, but no request without attestations is promised
\* only for k >= 1; for k = 0 the result is the input collection itself.
C7_RoundTrip ==
  ret # NoCall =>
    \A k \in 0..Len(Flatten(requests)) :
      vhash = PrefixHash(k) =>
        /\ ret.ok
        /\ Flatten(ret.value) = Remainder(k)
        /\ k >= 1 => NoEmptyRequest(ret.value)
        /\ k = 0 => ret.value = requests

\* rehash was called with the hash of a prefix that ends inside a request.
C7_Witness ==
  /\ ret # NoCall /\ ret.ok
  /\ Len(requests) = 2
  /\ Len(requests[1].data) = 2 /\ Len(requests[2].data) = 1
  /\ vhash = PrefixHash(1)
  /\ Len(ret.value) = 2

\* C8: rehash of HashZero over a collection that is not empty returns that
\* collection: the same requests with the same data in the same order.
C8_Genesis ==
  (ret # NoCall /\ vhash = HashZero /\ requests # << >>) =>
    ret.ok /\ ret.value = requests

\* rehash was called with HashZero on two requests holding attestations.
C8_Witness ==
  /\ ret # NoCall /\ ret.ok
  /\ vhash = HashZero
  /\ Len(requests) = 2
  /\ Len(requests[1].data) = 1 /\ Len(requests[2].data) = 2

\* C9: rehash of a hash that is neither HashZero nor the hash of any prefix of
\* the collection (which may be empty) throws and returns no collection.
C9_Mismatch ==
  (/\ ret # NoCall
   /\ vhash # HashZero
   /\ \A k \in 0..Len(Flatten(requests)) : vhash # PrefixHash(k)) =>
    /\ ~ret.ok
    /\ ret.error = "verification hash mismatch"
    /\ ret.value = << >>

\* rehash threw on a hash over as many attestations as a prefix of the
\* collection holds, but not over the same ones.
C9_Witness ==
  /\ ret # NoCall /\ ~ret.ok
  /\ Len(Flatten(requests)) = 2
  /\ Len(vhash) = 1
  /\ vhash # PrefixHash(1)

\* ------------------------------------------------------ claims on publish
\* C10: across interruptions after confirmed submissions and restarts, every
\* request publish sends holds exactly the attestations that follow those
\* already hashed into $vhash (none of them is sent again), and when a run
\* completes verify($vhash, requests) is true.
C10_Resumable ==
  /\ pending # NoTx =>
       \E k \in 0..Len(Flatten(requests)) :
         /\ vhash = PrefixHash(k)
         /\ k + Len(pending.data) <= Len(Flatten(requests))
         /\ Flatten(<<pending>>) =
              SubSeq(Flatten(requests), k + 1, k + Len(pending.data))
  /\ ppc = "complete" => verify(vhash, requests)

\* A run completed after sending one request, an earlier run having been
\* interrupted after its first confirmed submission.
C10_Witness ==
  /\ ppc = "complete"
  /\ runs >= 1
  /\ Len(requests) = 2
  /\ Len(requests[1].data) >= 1 /\ Len(requests[2].data) >= 1
  /\ Len(rehashed) = 1
  /\ sent = 2
  /\ verify(vhash, requests)

\* ------------------------------------------------------- claims on verify
\* C11: verify(vhash, requests) is true exactly when vhash is hash folded
\* from HashZero over every attestation of every request, in collection order;
\* so it is true of that hash (HashZero for a collection without
\* attestations) and false of every other vhash.
C11_VerifyIff ==
  valid # << >> =>
    (valid[1] <=> vhash = FoldHash(HashZero, Flatten(requests)))

\* verify was called with the hash over all three attestations of two requests.
C11_Witness ==
  /\ valid = << TRUE >>
  /\ Len(requests) = 2
  /\ Len(Flatten(requests)) = 3
  /\ requests[1].data # << >> /\ requests[2].data # << >>

\* C12: two collections with the same flattened (schema, attestation) pairs
\* verify alike against every vhash, whatever their request boundaries and
\* their requests without attestations.
C12_BoundariesFree ==
  (valid # << >> /\ valid2 # << >> /\ Flatten(requests) = Flatten(others)) =>
    valid = valid2

\* verify accepted both a request of two attestations and its split in two.
C12_Witness ==
  /\ valid = << TRUE >> /\ valid2 = << TRUE >>
  /\ Len(requests) = 1 /\ Len(requests[1].data) = 2
  /\ Len(others) = 2
  /\ Len(others[1].data) = 1 /\ Len(others[2].data) = 1

\* --------------------------------------------------------- claims on pack
\* The schemas of the first k attestations, each once, by first occurrence.
RECURSIVE C13_Firsts(_)
C13_Firsts(k) ==
  IF k = 0 THEN << >>
  ELSE LET before == C13_Firsts(k - 1)
       IN IF \E i \in 1..Len(before) : before[i] = attestations[k].schema
            THEN before
            ELSE Append(before, attestations[k].schema)

\* The attestations of schema s among the first k, in input order.
C13_Of(s, k) ==
  LET same(a) == a.schema = s
  IN SelectSeq(SubSeq(attestations, 1, k), same)

\* The entry that stands for an attestation in a request's data.
C13_Entry(a) ==
  [recipient |-> IF a.recipient = NoRecipient THEN AddressZero ELSE a.recipient,
   expirationTime |-> 0, revocable |-> FALSE, refUID |-> HashZero,
   data |-> a.data, value |-> 0]

\* C13: when pack returns, its requests are the schemas of the input in order
\* of first occurrence, and each request holds one entry for every attestation
\* of its schema, in input order: a stable grouping, nothing dropped or
\* duplicated.
C13_Grouping ==
  pk > Len(attestations) =>
    LET firsts == C13_Firsts(Len(attestations))
    IN /\ Len(acc) = Len(firsts)
       /\ \A i \in 1..Len(firsts) :
            /\ acc[i].schema = firsts[i]
            /\ LET of == C13_Of(firsts[i], Len(attestations))
               IN acc[i].data = [j \in 1..Len(of) |-> C13_Entry(of[j])]

\* pack returned [{A:[r1,r3]}, {B:[r2]}] for [A:r1, B:r2, A:r3].
C13_Witness ==
  /\ pk > Len(attestations)
  /\ Len(attestations) = 3
  /\ [i \in 1..3 |-> <<attestations[i].schema, attestations[i].data>>]
       = << <<"A", "r1">>, <<"B", "r2">>, <<"A", "r3">> >>
  /\ Len(acc) = 2
  /\ acc[1].schema = "A" /\ acc[2].schema = "B"
  /\ [j \in 1..2 |-> acc[1].data[j].data] = <<"r1", "r3">>

\* C14: after any prefix of the input the requests have pairwise distinct
\* schemas, none is without entries, and every entry of a request stands for
\* an attestation of the prefix whose schema is the request's.
C14_UniqueSchemas ==
  /\ \A i, j \in 1..Len(acc) : i # j => acc[i].schema # acc[j].schema
  /\ \A i \in 1..Len(acc) :
       /\ acc[i].data # << >>
       /\ \A j \in 1..Len(acc[i].data) :
            \E k \in 1..(pk - 1) :
              /\ attestations[k].schema = acc[i].schema
              /\ C13_Entry(attestations[k]) = acc[i].data[j]

\* Two attestations of three are reduced, into one request of two entries.
C14_Witness ==
  /\ Len(attestations) = 3 /\ pk = 3
  /\ Len(acc) = 1
  /\ Len(acc[1].data) = 2

\* ------------------------------- claims on slice while the chain moves on
\* C15: the gas limit is read once, before the first probe, and stays the
\* value every estimate is compared with, whatever the latest block and the
\* estimator do meanwhile; every slice pushed with attestations in it is
\* exactly a range probed in its search and accepted against that limit.
C15_StaleCeiling ==
  [][ /\ (pc = "getBlock" /\ pc' # pc) => gasLimit' = chainLimit
      /\ (pc # "getBlock" \/ pc' = pc) => gasLimit' = gasLimit
      /\ (Probing /\ probes' # probes /\ probes'[mid'].ok) =>
           IF probes'[mid'].cost > gasLimit - GasBuffer
             THEN hi' = mid' - 1 /\ lo' = lo
             ELSE lo' = mid' + 1 /\ hi' = hi
      /\ (Len(sliced') > Len(sliced) /\ sliced'[Len(sliced')].data # << >>) =>
           \E m \in DOMAIN probes :
             /\ m > start
             /\ probes[m].ok
             /\ ~(probes[m].cost > gasLimit - GasBuffer)
             /\ sliced'[Len(sliced')] =
                  Request(requests[ri].schema, JsSlice(requests[ri].data, start, m)) ]_vars

\* A slice of two attestations was pushed on an estimate that the gas limit
\* captured by the call accepts and the gas limit of the latest block rejects,
\* after a longer range was rejected.
C15_Witness ==
  /\ pc = "outer"
  /\ sliced # << >>
  /\ Len(sliced[Len(sliced)].data) = 2
  /\ chainLimit < gasLimit
  /\ 2 \in DOMAIN probes /\ probes[2].ok /\ probes[2].cost = gasLimit - GasBuffer
  /\ 3 \in DOMAIN probes /\ ~probes[3].ok

\* ------------------------------------------ claims on a blocked publish
\* $vhash is neither HashZero nor the hash of a prefix of the attestations
\* of the file.
C16_Mismatch ==
  /\ vhash # HashZero
  /\ \A k \in 0..Len(Flatten(requests)) : vhash # PrefixHash(k)

\* Nothing was sent and the command has not entered its loop.
C16_NothingSent ==
  /\ sent = 0
  /\ pending = NoTx
  /\ ppc \in {"start", "failed"}

\* C16: while $vhash is neither HashZero nor the hash of a prefix of the
\* file, publish sends nothing; with $vhash at HashZero, publish queues every
\* request of the file, sends them from the first one on, in order, and a run
\* that completes has sent one transaction for each request.
C16_BlockedOnMismatch ==
  /\ C16_Mismatch => C16_NothingSent
  /\ (vhash = HashZero /\ sent = 0 /\ ppc # "start") =>
       (ret.ok /\ rehashed = requests /\ pi = 1 /\ ppc \in {"loop", "complete"})
  /\ (runs = 0 /\ ret.ok /\ rehashed = requests) =>
       /\ sent = pi - 1 + (IF ppc = "waiting" THEN 1 ELSE 0)
       /\ pending # NoTx => pending = requests[pi]
       /\ ppc = "complete" => sent = Len(requests)

\* publish ended on the error of rehash, for a file of two requests and a
\* $vhash that commits to other attestations, without sending anything.
C16_Witness ==
  /\ ppc = "failed"
  /\ C16_Mismatch
  /\ ~ret.ok /\ ret # NoCall
  /\ Len(Flatten(requests)) >= 2
  /\ sent = 0

\* ------------------------------- claims on publish interrupted at tx.wait()
\* C17 (as claimed): at every moment $vhash is the hash folded over a prefix
\* of the attestations of the file, also when publish is interrupted between
\* attester.attest and tx.wait and run again before the transaction it left
\* is executed.
C17_PrefixFold ==
  \E k \in 0..Len(Flatten(requests)) : vhash = PrefixHash(k)

\* ------------------------------------- claims on the requests of rehash
\* d is what is left of full after some of its first attestations.
C18_IsSuffix(d, full) ==
  /\ Len(d) <= Len(full)
  /\ d = SubSeq(full, Len(full) - Len(d) + 1, Len(full))

\* The ways to take each returned request from a request of the input, in
\* input order.
C18_Origins ==
  { f \in [1..Len(ret.value) -> 1..Len(requests)] :
      \A i, j \in 1..Len(ret.value) : i < j => f[i] < f[j] }

\* C18: every request rehash returns is a request of the input, whole, or
\* what is left of one after its first attestations; the returned requests
\* come from different requests of the input, in input order; only the first
\* returned request may be a part of its request, and it is not empty then.
\* No returned request mixes attestations of two input requests or has more
\* attestations than the request it comes from.
C18_KeepsBoundaries ==
  (ret # NoCall /\ ret.ok) =>
    \E f \in C18_Origins :
      \A j \in 1..Len(ret.value) :
        /\ ret.value[j].schema = requests[f[j]].schema
        /\ C18_IsSuffix(ret.value[j].data, requests[f[j]].data)
        /\ Len(ret.value[j].data) <= Len(requests[f[j]].data)
        /\ ret.value[j] # requests[f[j]] => (j = 1 /\ ret.value[j].data # << >>)

\* rehash returned what is left of the first request and the whole second
\* request, which has the same schema.
C18_Witness ==
  /\ ret # NoCall /\ ret.ok
  /\ Len(requests) = 2
  /\ Len(requests[1].data) = 2 /\ Len(requests[2].data) = 1
  /\ requests[1].schema = requests[2].schema
  /\ vhash = PrefixHash(1)
  /\ Len(ret.value) = 2
  /\ ret.value[1] = Request(requests[1].schema, <<requests[1].data[2]>>)
  /\ ret.value[2] = requests[2]

\* ------------------------------------------- claims on the slices pushed
\* The answer lets the binary search move lo past the probed range.
C19_Accepts(out) == out.ok /\ ~OverLimit(out.cost, gasLimit)

\* Of two ranges probed so far, the shorter is accepted when the longer is.
C19_Monotone ==
  \A a, b \in DOMAIN memo :
    (Len(a[2]) <= Len(b[2]) /\ C19_Accepts(memo[b])) => C19_Accepts(memo[a])

\* Every range of no or one attestation probed so far was accepted.
C19_ShortAccepted ==
  \A a \in DOMAIN memo : Len(a[2]) <= 1 => C19_Accepts(memo[a])

\* C19: with an estimator that is monotone in the length of the range and
\* accepts the empty range and every range of one attestation, every slice
\* pushed by slice holds at least one attestation.
C19_NoEmptySlice ==
  (C19_Monotone /\ C19_ShortAccepted) =>
    \A i \in 1..Len(sliced) : sliced[i].data # << >>

\* slice returned two slices of a request of three attestations, the
\* estimator having accepted the empty range and the ranges of one
\* attestation and rejected a longer range.
C19_Witness ==
  /\ pc = "done"
  /\ C19_Monotone /\ C19_ShortAccepted
  /\ Len(requests) = 1 /\ Len(requests[1].data) = 3
  /\ Len(result) = 2
  /\ \A i \in 1..Len(result) : result[i].data # << >>
  /\ <<requests[1].schema, << >>>> \in DOMAIN memo
  /\ \E a \in DOMAIN memo : ~C19_Accepts(memo[a])
====
